---- MODULE Spec2Model ----
(***************************************************************************)
(* Model of the match-event pipeline: the HTTP ingest handler publishing   *)
(* to the events topic, the partitioned log (events, retry, dead), the     *)
(* batch consumer (fetch, batch, bulk insert, commit, retry escalation)    *)
(* and the store.                                                          *)
(*                                                                         *)
(* Spec      the deployment of cmd/server and the consumer main: one       *)
(*           ingest service and one batch consumer reading the events      *)
(*           topic, with publish, insert and commit faults, undecodable    *)
(*           records on the events topic and consumer crash/restart.       *)
(* SpecSym   the same pipeline with a second, symmetric consumer instance  *)
(*           reading the retry topic (and republishing to it), without     *)
(*           crashes and undecodable records.                              *)
(* SpecChain the symmetric pipeline with the store down for good and the   *)
(*           log healthy, following one accepted event along its chain of  *)
(*           re-publishes, with the count header at its byte width.        *)
(* SpecHttp  the HTTP service (event ingest and match metrics) seen by a   *)
(*           client that keeps the last response, with the pipeline        *)
(*           behind it.                                                    *)
(* SpecStop  the consumer process from the start of its goroutine to the   *)
(*           return of Stop: cancel(), Stop() and the final flush.         *)
(* SpecPeak  the metrics endpoint over stores as the pipeline leaves them. *)
(* SpecLive  the pipeline with the log and the store available for good,   *)
(*           under the fairness of the consumer loop.                      *)
(* SpecServe the ingest process with its probes and its graceful shutdown. *)
(* SpecCodec the serialization of events for the log and back.             *)
(* SpecRead  the pipeline with a healthy log and store and a client that   *)
(*           reads match metrics while the consumer inserts.               *)
(* SpecCfg   the consumer built by NewBatchConsumer from any               *)
(*           configuration.                                                *)
(***************************************************************************)
EXTENDS Integers, Sequences, FiniteSets, TLC

(* ------------------------------ bounds --------------------------------- *)
MaxEvents == 2          \* distinct event ids a client sends
NumPartitions == 2      \* partitions of every topic
MaxLog == 2             \* records on the events topic
MaxCrashes == 1         \* consumer crash/restarts in a run
MaxPoison == 1          \* undecodable records put on the events topic
MaxCfgBatch == 2        \* largest configured batch size
MaxCfgRetries == 2      \* largest configured max_retries (Spec, SpecSym)
MaxRetryLog == 258      \* records on the retry topic
MaxPeakIds == 4         \* event ids of the rows of a store drawn for SpecPeak
MaxPeakStore == 3       \* rows of a store drawn for SpecPeak
MaxInflight == 2        \* requests in flight in the ingest process

(* ------------------------- program constants --------------------------- *)
DefaultBatchSize == 1000
DefaultMaxRetries == 3
DefaultFlushInterval == 5     \* seconds
ByteRange == 256

EventIds == 1..MaxEvents
Partitions == 1..NumPartitions
Topics == {"events", "retry"}
NoHeader == -1

\* The match an event id belongs to (the client's payload for that id).
MatchOf(e) == IF e <= 2 THEN "M1" ELSE "M2"
MatchNo(m) == IF m = "M1" THEN 1 ELSE 2

\* The event type and the minute of the timestamp of the payload for an
\* event id: the events of M1 fall into one minute with two types, those
\* of M2 into a minute each.
EventTypeOf(e) == IF e % 2 = 1 THEN "goal" ELSE "pass"
MinuteOf(e) == IF e <= 2 THEN 1 ELSE e - 1

Max(a, b) == IF a >= b THEN a ELSE b

RECURSIVE SeqSum(_)
SeqSum(s) == IF s = <<>> THEN 0 ELSE Head(s) + SeqSum(Tail(s))

(* ------------------------------ domain --------------------------------- *)
ValidEventTypes == {"pass", "shot", "goal", "foul", "yellow_card", "red_card",
                    "substitution", "offside", "corner", "free_kick",
                    "interception"}

\* A request body: json = FALSE is a body that does not decode; eventId 0
\* is a string that is no UUID; timestamp is "rfc3339" or something else.
ValidRequest(e) ==
    [json |-> TRUE, eventId |-> e, matchId |-> MatchOf(e),
     eventType |-> EventTypeOf(e),
     timestamp |-> "rfc3339", teamId |-> 1]

Requests ==
    {ValidRequest(e) : e \in EventIds}
    \cup {[ValidRequest(1) EXCEPT !.json = FALSE],
          [ValidRequest(1) EXCEPT !.eventId = 0, !.teamId = 3],
          [ValidRequest(1) EXCEPT !.matchId = "", !.eventType = "GOAL"],
          [ValidRequest(1) EXCEPT !.eventType = "GOAL", !.timestamp = "2021-01-01"],
          [ValidRequest(1) EXCEPT !.timestamp = "2021-01-01", !.teamId = 0],
          [ValidRequest(1) EXCEPT !.teamId = 3]}

\* EventRequest.ToEvent: the first failing check decides the field.
ToEventTeamIdFirst(r) ==
    IF r.teamId \notin {1, 2} THEN [ok |-> FALSE, field |-> "teamId"]
    ELSE IF r.eventId \notin EventIds THEN [ok |-> FALSE, field |-> "eventId"]
    ELSE IF r.matchId = "" THEN [ok |-> FALSE, field |-> "matchId"]
    ELSE IF r.eventType \notin ValidEventTypes THEN [ok |-> FALSE, field |-> "eventType"]
    ELSE IF r.timestamp # "rfc3339" THEN [ok |-> FALSE, field |-> "timestamp"]
    ELSE [ok |-> TRUE, field |-> ""]
ToEvent(r) ==
    IF r.eventId \notin EventIds THEN [ok |-> FALSE, field |-> "eventId"]
    ELSE IF r.matchId = "" THEN [ok |-> FALSE, field |-> "matchId"]
    ELSE IF r.eventType \notin ValidEventTypes THEN [ok |-> FALSE, field |-> "eventType"]
    ELSE IF r.timestamp # "rfc3339" THEN [ok |-> FALSE, field |-> "timestamp"]
    ELSE IF r.teamId \notin {1, 2} THEN [ok |-> FALSE, field |-> "teamId"]
    ELSE [ok |-> TRUE, field |-> ""]

\* A log record: id = 0 is a value that EventFromKafkaMessage cannot decode;
\* rc is the first byte of the retry_count header, NoHeader when absent.
Record(e, m, rc) == [id |-> e, m |-> m, rc |-> rc]
PoisonRecord == Record(0, "M1", NoHeader)

\* domain.EventFromKafkaMessage: ok = FALSE on a decode error.
EventFromKafkaMessage(rec) ==
    IF rec.id = 0 THEN [ok |-> FALSE, id |-> 0, m |-> ""]
    ELSE [ok |-> TRUE, id |-> rec.id, m |-> rec.m]

(* ------------------------- the log value codec ------------------------- *)
\* time.RFC3339Nano prints up to nine fractional digits of the second.
NanoDigits == 9

RECURSIVE Pow10(_)
Pow10(k) == IF k = 0 THEN 1 ELSE 10 * Pow10(k - 1)

\* The w decimal digits of n, most significant first.
Digits(n, w) == [i \in 1..w |-> (n \div Pow10(w - i)) % 10]

\* The layout's "999999999": trailing zeros of the fraction are not printed.
RECURSIVE TrimZeros(_)
TrimZeros(s) ==
    IF s = <<>> THEN s
    ELSE IF s[Len(s)] = 0 THEN TrimZeros(SubSeq(s, 1, Len(s) - 1))
    ELSE s

\* The nanoseconds a printed fraction stands for.
RECURSIVE FracNanos(_)
FracNanos(s) ==
    IF s = <<>> THEN 0
    ELSE s[Len(s)] * Pow10(NanoDigits - Len(s))
         + FracNanos(SubSeq(s, 1, Len(s) - 1))

\* The layout's "Z07:00": Z for offset zero, else sign, hours and minutes.
\* An offset is in minutes east of UTC.
ZoneText(o) ==
    IF o = 0 THEN [z |-> TRUE, sign |-> "+", hh |-> 0, mm |-> 0]
    ELSE [z |-> FALSE, sign |-> IF o < 0 THEN "-" ELSE "+",
          hh |-> (IF o < 0 THEN -o ELSE o) \div 60,
          mm |-> (IF o < 0 THEN -o ELSE o) % 60]

ZoneOffset(zt) ==
    IF zt.z THEN 0
    ELSE (IF zt.sign = "-" THEN -1 ELSE 1) * (zt.hh * 60 + zt.mm)

\* A time.Time is an instant (unix seconds and nanoseconds) in a zone.
\* Timestamp.Format(time.RFC3339Nano): the wall clock of the zone (wall
\* stands for the date and time fields), the fraction and the zone.
FormatRFC3339Seconds(t) ==
    [wall |-> t.unix + 60 * t.offset, frac |-> <<>>, zone |-> ZoneText(t.offset)]
FormatRFC3339Nano(t) ==
    [wall |-> t.unix + 60 * t.offset,
     frac |-> TrimZeros(Digits(t.nsec, NanoDigits)),
     zone |-> ZoneText(t.offset)]

\* time.Parse(time.RFC3339Nano, s), with time.RFC3339 as the fallback: both
\* layouts accept a fraction of up to nine digits after the seconds.
ParseRFC3339Nano(text) ==
    [ok |-> Len(text.frac) <= NanoDigits,
     t |-> [unix |-> text.wall - 60 * ZoneOffset(text.zone),
            nsec |-> FracNanos(text.frac),
            offset |-> ZoneOffset(text.zone)]]

\* uuid.UUID.String and uuid.Parse: the hexadecimal digits of the id.
UuidString(u) == <<u \div 16, u % 16>>
UuidParse(s) ==
    [ok |-> Len(s) = 2 /\ \A i \in 1..Len(s) : s[i] \in 0..15,
     id |-> s[1] * 16 + s[2]]

\* Event.ToKafkaMessage: the JSON document of the KafkaMessage struct
\* (strings and the integer teamId are JSON values of their own type).
ToKafkaMessage(e) ==
    [eventId |-> UuidString(e.id), matchId |-> e.m, eventType |-> e.eventType,
     timestamp |-> FormatRFC3339Nano(e.timestamp),
     teamId |-> e.teamId, playerId |-> e.playerId]

\* domain.EventFromKafkaMessage on the full value of a record.
DecodeKafkaMessage(msg) ==
    LET u == UuidParse(msg.eventId)
        ts == ParseRFC3339Nano(msg.timestamp)
    IN [ok |-> u.ok /\ ts.ok,
        event |-> [id |-> u.id, m |-> msg.matchId, eventType |-> msg.eventType,
                   timestamp |-> ts.t, teamId |-> msg.teamId,
                   playerId |-> msg.playerId]]

\* The events ToEvent returns: a UUID, a match, a valid type, a timestamp
\* parsed from RFC 3339 text (whole or fractional seconds, any zone), team
\* 1 or 2 and a player id that may be empty.
TripUnix == {0, 86399}
TripNanos == {0, 1, 120000000, 999999999}
TripOffsets == {-60, 0, 330}
Timestamps == [unix : TripUnix, nsec : TripNanos, offset : TripOffsets]
ValidEvents ==
    [id : EventIds, m : {"M1", "M2"}, eventType : {"goal", "pass"},
     timestamp : Timestamps, teamId : {1, 2}, playerId : {"", "P7"}]

\* No round trip made yet.
NoTrip ==
    LET e == [id |-> 1, m |-> "M1", eventType |-> "goal",
              timestamp |-> [unix |-> 0, nsec |-> 0, offset |-> 0],
              teamId |-> 1, playerId |-> ""]
    IN [made |-> FALSE, event |-> e, value |-> ToKafkaMessage(e),
        back |-> DecodeKafkaMessage(ToKafkaMessage(e))]

VARIABLES
    topics,      \* topics[t][p]: the records of partition p of topic t
    dead,        \* the dead topic: dead-letter envelopes, in publish order
    store,       \* the rows of the store, in insert order (event ids)
    lbBytes,     \* the ingest writer's LeastBytes counters, per partition
    acked,       \* event ids answered 202
    rejected,    \* event ids answered 503
    cfg,         \* the consumer configuration after NewBatchConsumer
    env,         \* the environment of the run (store down for good or not)
    cons,        \* cons[c]: the consumer instance reading topic c
    committed,   \* committed[c][p]: the group offset of the reader of topic c
    decoded,     \* event ids some consumer has decoded
    lost,        \* event ids whose dead-letter publish failed
    poisoned,    \* undecodable records put on the events topic so far
    crashes,     \* consumer crashes so far
    resp,        \* the last response a recording client got (env.recorder)
    app,         \* the ingest process: its server, its connections, Shutdown
    pending,     \* the metrics request between two queries of the repository
    published,   \* event ids in the order of their 202 answers (env.recorder)
    trip         \* the last event serialized for the log and parsed back

vars == <<topics, dead, store, lbBytes, acked, rejected, cfg, env,
          cons, committed, decoded, lost, poisoned, crashes, resp, app, trip,
          pending, published>>


(* ------------------------------ the log -------------------------------- *)
TopicLen(t) == SeqSum([p \in Partitions |-> Len(topics[t][p])])

\* kafka.LeastBytes: the partition with the fewest bytes written so far
\* (the first one among equals). Every record counts as one unit; the
\* counters are kept relative to the smallest one.
LeastBytes(bytes) ==
    CHOOSE p \in Partitions :
        /\ \A q \in Partitions : bytes[p] <= bytes[q]
        /\ \A q \in Partitions : bytes[q] = bytes[p] => p <= q

MinBytes(bytes) == bytes[LeastBytes(bytes)]

BytesAfterWrite(bytes, p) ==
    LET b == [bytes EXCEPT ![p] = @ + 1]
    IN [q \in Partitions |-> b[q] - MinBytes(b)]

\* kafka.Hash: the partition is a function of the key (the match id).
HashPartition(m) == (MatchNo(m) % NumPartitions) + 1

\* The partition the ingest writer picks for a record keyed by match m:
\* AppContext.initKafkaProducer configures Balancer: &kafka.LeastBytes{}.
ProducerPartition(bytes, m) == LeastBytes(bytes)

AppendTo(tt, t, p, rec) == [tt EXCEPT ![t][p] = Append(@, rec)]

RECURSIVE WriteAll(_, _, _)
\* Writer.WriteMessages of the retry writer (Balancer: &kafka.Hash{}).
WriteAll(tt, t, recs) ==
    IF recs = <<>> THEN tt
    ELSE WriteAll(AppendTo(tt, t, HashPartition(Head(recs).m), Head(recs)),
                  t, Tail(recs))

OnTopic(t, e) == \E p \in Partitions : \E k \in 1..Len(topics[t][p]) :
                    topics[t][p][k].id = e

OnDead(e) == \E k \in 1..Len(dead) : dead[k].event_id = e

InStore(e) == \E k \in 1..Len(store) : store[k] = e

(* ------------------------- the ingest handler -------------------------- *)
\* Handler.IngestEvent reaches Produce only for a decodable, valid request.
ProduceCalledAlways(req) == TRUE
ProduceCalled(req) == req.json /\ ToEvent(req).ok

\* EventProducer.Produce: the record is on the topic iff WriteMessages
\* returned no error.
ProduceWritesErrToo(produceErr) == TRUE
ProduceWrites(produceErr) == ~produceErr

\* The status Handler.IngestEvent answers with.
IngestStatusIgnoresErr(req, produceErr) ==
    IF ~req.json THEN 400
    ELSE IF ~ToEvent(req).ok THEN 400
    ELSE 202
IngestStatus(req, produceErr) ==
    IF ~req.json THEN 400
    ELSE IF ~ToEvent(req).ok THEN 400
    ELSE IF produceErr THEN 503
    ELSE 202

\* The field of the error response: the decoder's error text for a body
\* that does not decode, the ValidationError's field for an invalid request.
ResponseField(req) ==
    IF ~req.json THEN "json: syntax error"
    ELSE IF ~ToEvent(req).ok THEN ToEvent(req).field
    ELSE ""

\* What a client reads off a response: the operation, the request, the
\* status, the field of an error response and, for match metrics, the
\* total and the peak minute (count 0: no peakMinute in the body).
NoPeak == [minute |-> 0, count |-> 0]

\* No metrics request is between two queries.
NoPending == [active |-> FALSE, matchId |-> "", total |-> 0]
\* For a metrics request the client (a test with a stub repository) also
\* knows whether the repository was called, whether GetMatchMetrics and
\* GetEventsPerMinute returned an error, how many rows the match had and
\* which per-minute rows GetEventsPerMinute returned. byType is the sum of
\* the counts of eventsByType, typesSkipped the number of by-type rows
\* whose Scan failed.
NoResponse ==
    [op |-> "none", req |-> ValidRequest(1), matchId |-> "", status |-> 0,
     field |-> "", total |-> 0, peak |-> NoPeak,
     queried |-> FALSE, repoErr |-> FALSE, followErr |-> FALSE, rows |-> 0,
     perMinute |-> {}, byType |-> 0, typesSkipped |-> 0]
IngestResponse(req, status, field) ==
    [NoResponse EXCEPT !.op = "ingest", !.req = req, !.matchId = req.matchId,
                       !.status = status, !.field = field]

\* Handler.IngestEvent for request req, produceErr being the error of
\* WriteMessages.
Ingest(req, produceErr) ==
    LET wrote == ProduceCalled(req) /\ ProduceWrites(produceErr)
        p == ProducerPartition(lbBytes, req.matchId)
        status == IngestStatus(req, produceErr)
    IN /\ TopicLen("events") < env.maxLog
       /\ topics' = IF wrote
                    THEN AppendTo(topics, "events", p,
                                  Record(req.eventId, req.matchId, NoHeader))
                    ELSE topics
       /\ lbBytes' = IF ProduceCalled(req) THEN BytesAfterWrite(lbBytes, p)
                     ELSE lbBytes
       /\ acked' = IF status = 202 THEN acked \cup {req.eventId} ELSE acked
       /\ rejected' = IF status = 503 THEN rejected \cup {req.eventId}
                      ELSE rejected
       /\ resp' = IF env.recorder
                  THEN IngestResponse(req, status, ResponseField(req))
                  ELSE resp
       /\ published' = IF env.recorder /\ status = 202
                       THEN Append(published, req.eventId)
                       ELSE published
       /\ UNCHANGED <<dead, store, cfg, env, cons, committed, decoded, lost,
                      poisoned, crashes, trip, pending>>

\* A request to POST /api/events, from its arrival to its response.
IngestEvent ==
    \E req \in Requests, produceErr \in BOOLEAN :
        Ingest(req, produceErr) /\ UNCHANGED app

(* ------------------------- the metrics handler ------------------------- *)
\* The matchId URL parameter of a metrics request.
MatchIds == {"", "M1", "M2"}

\* The event ids a row of the store can carry, and toStartOfMinute(timestamp)
\* of those rows.
MetricIds == 1..MaxPeakIds
Minutes == {MinuteOf(e) : e \in EventIds \cup MetricIds}

\* The rows of fanfinity.match_events WHERE match_id = m.
RowsOf(m) == {k \in 1..Len(store) : MatchOf(store[k]) = m}
MinuteCount(m, t) == Cardinality({k \in RowsOf(m) : MinuteOf(store[k]) = t})

\* The minutes with the highest count: ORDER BY event_count DESC LIMIT 1
\* and the handler's loop over a map both pick any one of them.
PeakMinutes(m) ==
    {t \in Minutes : /\ MinuteCount(m, t) > 0
                     /\ \A u \in Minutes : MinuteCount(m, u) <= MinuteCount(m, t)}
PeakAt(m, t) ==
    IF t \in PeakMinutes(m) THEN [minute |-> t, count |-> MinuteCount(m, t)]
    ELSE NoPeak

\* ClickHouseRepository.GetMatchMetrics: an error when the summary scan or
\* the by-type query fails, nil without rows, else the metrics, with
\* PeakMinute set when its own peak query succeeded.
RepositoryGetMatchMetrics(m, summaryErr, byTypeErr, peakErr, t) ==
    LET none == [err |-> FALSE, nil |-> TRUE, total |-> 0, peak |-> NoPeak]
    IN IF m = "" \/ summaryErr THEN [none EXCEPT !.err = TRUE]
       ELSE IF Cardinality(RowsOf(m)) = 0 THEN none
       ELSE IF byTypeErr THEN [none EXCEPT !.err = TRUE]
       ELSE [err |-> FALSE, nil |-> FALSE, total |-> Cardinality(RowsOf(m)),
             peak |-> IF peakErr THEN NoPeak ELSE PeakAt(m, t)]

\* Handler.GetMatchMetrics, lines 94-113: the status of the response.
MetricsStatusFoundAlways(matchID, metrics) ==
    IF matchID = "" THEN 400
    ELSE IF metrics.err THEN 500
    ELSE 200
MetricsStatus(matchID, metrics) ==
    IF matchID = "" THEN 400
    ELSE IF metrics.err THEN 500
    ELSE IF metrics.nil \/ metrics.total = 0 THEN 404
    ELSE 200

\* Handler.GetMatchMetrics, lines 115-152: the PeakMinute of the body. When
\* GetEventsPerMinute fails the metrics are sent as the repository returned
\* them; else PeakMinute is replaced by the handler's own peak.
BodyPeak(metrics, followErr, handlerPeak) ==
    IF followErr THEN metrics.peak ELSE handlerPeak

\* ClickHouseRepository.GetEventsPerMinute: one row per minute and event
\* type of the match, with the number of its events.
PerMinuteRows(m) ==
    {r \in [minute : {MinuteOf(store[k]) : k \in RowsOf(m)},
             eventType : {EventTypeOf(store[k]) : k \in RowsOf(m)},
             count : 1..Len(store)] :
        r.count = Cardinality({k \in RowsOf(m) :
                                  /\ MinuteOf(store[k]) = r.minute
                                  /\ EventTypeOf(store[k]) = r.eventType})}

RECURSIVE CountSum(_)
CountSum(rows) ==
    IF rows = {} THEN 0
    ELSE LET r == CHOOSE x \in rows : TRUE IN r.count + CountSum(rows \ {r})

\* Handler.GetMatchMetrics, lines 127-131: minuteTotals[epm.Minute] +=
\* epm.EventCount over all rows.
MinuteTotalOneRow(rows, t) ==
    IF {r \in rows : r.minute = t} = {} THEN 0
    ELSE (CHOOSE r \in rows : r.minute = t /\ \A x \in rows :
                                  x.minute = t => x.count <= r.count).count
MinuteTotal(rows, t) == CountSum({r \in rows : r.minute = t})

\* The orders in which a range over the map minuteTotals can visit its keys.
MapOrders(rows) ==
    LET keys == {r.minute : r \in rows}
    IN {o \in [1..Cardinality(keys) -> keys] :
          \A i, j \in 1..Cardinality(keys) : o[i] = o[j] => i = j}

RECURSIVE PeakLoop(_, _, _, _)
\* Handler.GetMatchMetrics, lines 134-141: the loop over minuteTotals keeps
\* a minute whose total is greater than the best so far.
PeakLoop(rows, order, k, best) ==
    IF k > Len(order) THEN best
    ELSE LET count == MinuteTotal(rows, order[k])
         IN PeakLoop(rows, order, k + 1,
                     IF count > best.count
                     THEN [minute |-> order[k], count |-> count] ELSE best)

\* Handler.GetMatchMetrics, lines 124-149: the peak, nil without rows.
HandlerPeak(rows, order) == PeakLoop(rows, order, 1, NoPeak)

\* The outcomes of the store queries of one request that can make a
\* difference: without a matchId nothing is queried, after a failed summary
\* or without rows the later queries are not issued.
PeakChoices(m) == IF PeakMinutes(m) = {} THEN {MinuteOf(1)} ELSE PeakMinutes(m)
SummaryOutcomes(m) == IF m = "" THEN {FALSE} ELSE BOOLEAN
LaterOutcomes(m, summaryErr) ==
    IF summaryErr \/ RowsOf(m) = {} THEN {FALSE} ELSE BOOLEAN

\* The rows GetEventsPerMinute returns: a row whose Scan fails is skipped.
ScannedRows(m, summaryErr, followErr) ==
    IF summaryErr \/ followErr THEN {{}} ELSE SUBSET PerMinuteRows(m)

\* ClickHouseRepository.GetMatchMetrics, lines 258-284: one row per event
\* type of the match with the number of its events; a row whose Scan fails
\* is skipped.
ByTypeRows(m) ==
    {r \in [eventType : {EventTypeOf(store[k]) : k \in RowsOf(m)},
             count : 1..Len(store)] :
        r.count = Cardinality({k \in RowsOf(m) :
                                  EventTypeOf(store[k]) = r.eventType})}
ScannedTypes(m, ok) == IF ok THEN SUBSET ByTypeRows(m) ELSE {{}}

GetMatchMetrics ==
    \E m \in MatchIds :
      \E summaryErr \in SummaryOutcomes(m) :
        \E byTypeErr \in LaterOutcomes(m, summaryErr),
           peakErr \in LaterOutcomes(m, summaryErr),
           followErr \in LaterOutcomes(m, summaryErr),
           t \in PeakChoices(m) :
          \E rows \in ScannedRows(m, summaryErr, followErr) :
            \E order \in MapOrders(rows) :
              LET metrics == RepositoryGetMatchMetrics(m, summaryErr, byTypeErr,
                                                       peakErr, t)
                  status == MetricsStatus(m, metrics)
                  ok == status = 200
              IN /\ env.recorder
                 /\ ~pending.active
                 /\ ~ok => rows = {}
                 /\ \E types \in ScannedTypes(m, ok) :
                    resp' = [NoResponse EXCEPT
                               !.byType = CountSum(types),
                               !.typesSkipped = IF ok
                                                THEN Cardinality(ByTypeRows(m) \ types)
                                                ELSE 0,
                               !.op = "metrics", !.matchId = m, !.status = status,
                               !.total = IF ok THEN metrics.total ELSE 0,
                               !.peak = IF ok
                                        THEN BodyPeak(metrics, followErr,
                                                      HandlerPeak(rows, order))
                                        ELSE NoPeak,
                               !.queried = m # "",
                               !.repoErr = m # "" /\ metrics.err,
                               !.followErr = ok /\ followErr,
                               !.rows = Cardinality(RowsOf(m)),
                               !.perMinute = rows]
                 /\ UNCHANGED <<pending, published, app, trip, topics, dead, store, lbBytes, acked,
                                rejected, cfg, env, cons, committed, decoded,
                                lost, poisoned, crashes>>

\* ClickHouseRepository.GetMatchMetrics, lines 207-241: the summary query
\* of a metrics request found rows of match m, and the call goes on.
QuerySummary ==
    \E m \in MatchIds \ {""} :
        /\ env.recorder
        /\ ~pending.active
        /\ RowsOf(m) # {}
        /\ pending' = [active |-> TRUE, matchId |-> m,
                       total |-> Cardinality(RowsOf(m))]
        /\ UNCHANGED <<published, app, trip, resp, topics, dead, store, lbBytes,
                       acked, rejected, cfg, env, cons, committed, decoded,
                       lost, poisoned, crashes>>

\* The rest of that request: the by-type query, the peak query, then the
\* handler's GetEventsPerMinute and its response, all on the store as it
\* is by now, with the total of the summary query.
FinishMetrics ==
    \E byTypeErr \in BOOLEAN :
      \E peakErr \in LaterOutcomes(pending.matchId, byTypeErr),
         followErr \in LaterOutcomes(pending.matchId, byTypeErr),
         t \in PeakChoices(pending.matchId) :
        \E types \in ScannedTypes(pending.matchId, ~byTypeErr) :
          \E rows \in ScannedRows(pending.matchId, byTypeErr, followErr) :
            \E order \in MapOrders(rows) :
              LET m == pending.matchId
                  now == RepositoryGetMatchMetrics(m, FALSE, byTypeErr, peakErr, t)
                  metrics == IF now.err THEN now
                             ELSE [now EXCEPT !.total = pending.total]
                  status == MetricsStatus(m, metrics)
                  ok == status = 200
              IN /\ pending.active
                 /\ resp' = [NoResponse EXCEPT
                               !.op = "metrics", !.matchId = m, !.status = status,
                               !.total = IF ok THEN metrics.total ELSE 0,
                               !.peak = IF ok
                                        THEN BodyPeak(metrics, followErr,
                                                      HandlerPeak(rows, order))
                                        ELSE NoPeak,
                               !.queried = TRUE,
                               !.repoErr = metrics.err,
                               !.followErr = ok /\ followErr,
                               !.rows = Cardinality(RowsOf(m)),
                               !.perMinute = rows,
                               !.byType = CountSum(types),
                               !.typesSkipped = IF ok
                                                THEN Cardinality(ByTypeRows(m) \ types)
                                                ELSE 0]
                 /\ pending' = NoPending
                 /\ UNCHANGED <<published, app, trip, topics, dead, store,
                                lbBytes, acked, rejected, cfg, env, cons,
                                committed, decoded, lost, poisoned, crashes>>

\* A record that does not decode, put on the events topic by another
\* producer (the log is shared; the consumer's parse-error path expects it).
InjectPoison ==
    \E p \in Partitions :
        /\ poisoned < MaxPoison
        /\ TopicLen("events") < env.maxLog
        /\ topics' = AppendTo(topics, "events", p, PoisonRecord)
        /\ poisoned' = poisoned + 1
        /\ UNCHANGED <<pending, published, app, trip, resp, dead, store, lbBytes, acked, rejected, cfg, env,
                       cons, committed, decoded, lost, crashes>>

(* --------------------------- the batch consumer ------------------------ *)
Consumers == Topics

\* NewBatchConsumer: a non-positive BatchSize, FlushInterval (in seconds)
\* or MaxRetries gets the default. given is the configuration passed in.
NewBatchConsumerKeepsGiven(c) ==
    [batchSize   |-> IF c.BatchSize <= 0 THEN 1 ELSE c.BatchSize,
     flushInterval |-> c.FlushInterval,
     maxRetries  |-> IF c.MaxRetries <= 0 THEN 1 ELSE c.MaxRetries,
     retryWriter |-> c.RetryWriter,
     deadWriter  |-> c.DeadWriter,
     given       |-> c]
NewBatchConsumer(c) ==
    [batchSize   |-> IF c.BatchSize <= 0 THEN DefaultBatchSize ELSE c.BatchSize,
     flushInterval |-> IF c.FlushInterval <= 0 THEN DefaultFlushInterval
                       ELSE c.FlushInterval,
     maxRetries  |-> IF c.MaxRetries <= 0 THEN DefaultMaxRetries ELSE c.MaxRetries,
     retryWriter |-> c.RetryWriter,
     deadWriter  |-> c.DeadWriter,
     given       |-> c]

\* The fields of a BatchConsumer: batch and messages are the two live
\* buffers; events and msgs are the snapshot flushWithContext took last;
\* i and retryMessages are the loop state of sendToRetry / sendToDead;
\* insertErr, retryOK, commit and disp record what the last flush did
\* (commit: "none", "ok" or "err"; disp[k]: what happened to record k).
\* parseErrors is the parse_error counter of the process. ctx is the context
\* handed to Start, done the channel Stop closes, wg the wait group, stop
\* the position of the Stop call, draining whether Start is in its final
\* flush (under context.Background()). pc = "init" is Start before
\* wg.Add(1), pc = "returned" is Start after its return. redelivered is
\* what the group handed the reader again when the process started: the
\* events of the store whose records were at or after the committed offset.
\* batchLock is the mutex of the two live buffers. closed lists what the
\* main function of the process has closed so far.
ConsStart(offsets) ==
    [pc |-> "loop", pos |-> offsets,
     batch |-> <<>>, messages |-> <<>>,
     events |-> <<>>, msgs |-> <<>>,
     i |-> 1, retryMessages |-> <<>>,
     inserted |-> FALSE, insertErr |-> FALSE, retryOK |-> FALSE,
     commit |-> "none", disp |-> <<>>,
     parseErrors |-> 0,
     ctx |-> "live", done |-> "open", wg |-> 1, stop |-> "idle",
     draining |-> FALSE, redelivered |-> {}, batchLock |-> "free",
     closed |-> <<>>]

\* go consumer.Start(ctx): the goroutine exists, Start has not run yet.
Spawned(cr) == [cr EXCEPT !.pc = "init", !.wg = 0]

\* The end of a flush: the snapshot and the loop state are locals of the
\* call and are gone; the result of the commit call, if any, stays recorded.
\* After the final flush Start returns (and its deferred wg.Done() runs).
Return(cr, commit) ==
    [cr EXCEPT !.pc = IF cr.draining THEN "returned" ELSE "loop",
               !.wg = IF cr.draining THEN @ - 1 ELSE @,
               !.events = <<>>, !.msgs = <<>>, !.i = 1,
               !.retryMessages = <<>>, !.inserted = FALSE, !.insertErr = FALSE,
               !.retryOK = FALSE, !.disp = <<>>, !.commit = commit]

\* A step of the escalation that ends the flush ends it without a commit.
Settle(cr) == IF cr.pc = "loop" THEN Return(cr, "none") ELSE cr

Message(p, off, rec) == [p |-> p, off |-> off, id |-> rec.id, m |-> rec.m, rc |-> rec.rc]

\* sendToRetry, lines 330-339: the first byte of the retry_count header
\* (0 without one), plus one.
RetryCountOf(msg) == IF msg.rc = NoHeader THEN 0 ELSE msg.rc
NewCount(msg) == RetryCountOf(msg) + 1

\* sendToRetry, line 342: the record goes to dead when the new count
\* exceeds max_retries.
ExceedsMaxRetries(n, maxRetries) == n > maxRetries

\* byte(retryCount): the header holds the count modulo 256.
ByteOf(n) == n % ByteRange

\* The record sendToRetry builds for the retry topic: Key is the match id
\* of the event, the retry_count header is byte(retryCount).
RetryMessageUnkeyed(ev, n) == Record(ev.id, "", ByteOf(n))
RetryMessage(ev, n) == Record(ev.id, ev.m, ByteOf(n))

\* The envelope sendSingleToDead publishes.
DeadLetter(ev) ==
    [event_id |-> ev.id, match_id |-> ev.m,
     reason |-> "max_retries_exceeded_or_permanent_failure"]

\* Reader.CommitMessages: per partition, the group offset becomes the
\* highest offset of the call plus one. merge = TRUE is the reader's commit
\* loop folding the call into a pending commit of a higher offset.
CommitOffsets(old, msgs, merge) ==
    [p \in Partitions |->
        LET offs == {msgs[k].off : k \in {j \in 1..Len(msgs) : msgs[j].p = p}}
        IN IF offs = {} THEN old[p]
           ELSE LET new == (CHOOSE o \in offs : \A o2 \in offs : o2 <= o) + 1
                IN IF merge THEN Max(old[p], new) ELSE new]

\* The errors InsertBatch can return: always one with the store down for
\* good, never one with the store up for good, else either.
InsertOutcomes ==
    IF env.storeDown THEN {TRUE}
    ELSE IF env.storeUp THEN {FALSE}
    ELSE BOOLEAN

\* The errors a publish to retry or dead, or an offset commit, can return.
LogOutcomes == IF env.logFaults THEN BOOLEAN ELSE {FALSE}

\* flushWithContext, lines 250-261: under batchLock, snapshot both buffers
\* and reset them; the lock is released before the insert. An empty buffer
\* returns at once.
BeginFlushEmptyToo(cr) ==
    [cr EXCEPT !.pc = "insert",
               !.events = cr.batch, !.msgs = cr.messages,
               !.batch = <<>>, !.messages = <<>>,
               !.commit = "none", !.disp = <<>>]
BeginFlushKeepsLock(cr) ==
    IF Len(cr.batch) = 0 THEN cr
    ELSE [cr EXCEPT !.pc = "insert", !.batchLock = "held",
                    !.events = cr.batch, !.msgs = cr.messages,
                    !.batch = <<>>, !.messages = <<>>,
                    !.commit = "none",
                    !.disp = [k \in 1..Len(cr.batch) |-> "none"]]
BeginFlush(cr) ==
    IF Len(cr.batch) = 0 THEN cr
    ELSE [cr EXCEPT !.pc = "insert", !.batchLock = "free",
                    !.events = cr.batch, !.msgs = cr.messages,
                    !.batch = <<>>, !.messages = <<>>,
                    !.i = 1, !.retryMessages = <<>>,
                    !.inserted = FALSE, !.insertErr = FALSE, !.retryOK = FALSE,
                    !.commit = "none",
                    !.disp = [k \in 1..Len(cr.batch) |-> "none"]]

\* Start, the select: the default branch (fetch) is taken only when no
\* other case is ready, the ticker branch whenever the ticker fired.
ShutdownSignalled(cr) == cr.ctx = "cancelled" \/ cr.done = "closed"

\* Start, lines 200-216: a record that does not decode is counted, its
\* commit is called (an error of the call is logged) and the loop continues
\* with the next fetch.
OnParseErrorBlocks(cr, p, commitErr) == cr
OnParseError(cr, p, commitErr) ==
    [cr EXCEPT !.pos[p] = @ + 1,
               !.parseErrors = @ + 1,
               !.commit = IF commitErr THEN "err" ELSE "ok"]

\* Start, lines 218-223: under batchLock the event and its record are
\* appended to the two live buffers.
AddToBatchNewestFirst(cr, ev, msg) ==
    [cr EXCEPT !.batch = Append(@, [id |-> ev.id, m |-> ev.m]),
               !.messages = <<msg>> \o @]
AddToBatch(cr, ev, msg) ==
    [cr EXCEPT !.batch = Append(@, [id |-> ev.id, m |-> ev.m]),
               !.messages = Append(@, msg),
               !.batchLock = "free"]

\* Start, lines 230-233: the batch is flushed when it has batch_size events.
BatchFullLate(batchLen, batchSize) == batchLen > batchSize
BatchFull(batchLen, batchSize) == batchLen >= batchSize

\* Start, default branch: fetch one record, decode it, commit it at once
\* when it does not decode, else buffer it and flush a full batch.
Fetch(c) ==
    \E p \in Partitions, commitErr \in LogOutcomes, merge \in BOOLEAN :
        LET cr == cons[c]
            rec == topics[c][p][cr.pos[p] + 1]
            msg == Message(p, cr.pos[p], rec)
            ev == EventFromKafkaMessage(rec)
            moved == [cr EXCEPT !.pos[p] = @ + 1]
            added == AddToBatch(moved, ev, msg)
        IN /\ cr.pc = "loop"
           /\ cr.batchLock = "free"
           /\ ~ShutdownSignalled(cr)
           /\ cr.pos[p] < Len(topics[c][p])
           /\ IF ~ev.ok
              THEN /\ cons' = [cons EXCEPT ![c] = OnParseError(cr, p, commitErr)]
                   /\ committed' = IF commitErr THEN committed
                                   ELSE [committed EXCEPT ![c] =
                                            CommitOffsets(@, <<msg>>, merge)]
                   /\ UNCHANGED decoded
              ELSE /\ commitErr = FALSE /\ merge = FALSE
                   /\ cons' = [cons EXCEPT ![c] =
                                 IF BatchFull(Len(added.batch), cfg.batchSize)
                                 THEN BeginFlush(added) ELSE added]
                   /\ decoded' = decoded \cup {ev.id}
                   /\ UNCHANGED committed
           /\ UNCHANGED <<pending, published, app, trip, resp, topics, dead, store, lbBytes, acked, rejected,
                          cfg, env, lost, poisoned, crashes>>

\* Start, lines 182-196: FetchMessage returned an error (the 100 ms
\* timeout, a cancelled context, a broker error); the loop continues.
OnFetchErrorReturns(cr) == [cr EXCEPT !.pc = "returned", !.wg = @ - 1]
OnFetchError(cr) == cr

FetchError(c) ==
    /\ cons[c].pc = "loop"
    /\ ~ShutdownSignalled(cons[c])
    /\ cons' = [cons EXCEPT ![c] = OnFetchError(@)]
    /\ UNCHANGED <<pending, published, app, trip, resp, topics, dead, store, lbBytes, acked, rejected, cfg,
                   env, committed, decoded, lost, poisoned, crashes>>

\* Start, ticker branch: flush whatever is buffered.
TickerIdle(c) == cons[c].pc = "loop" /\ UNCHANGED vars
TickerFlush(c) ==
    /\ cons[c].pc = "loop"
    /\ cons[c].batchLock = "free"
    /\ cons' = [cons EXCEPT ![c] = BeginFlush(@)]
    /\ UNCHANGED <<pending, published, app, trip, resp, topics, dead, store, lbBytes, acked, rejected, cfg,
                   env, committed, decoded, lost, poisoned, crashes>>

\* flushWithContext, lines 273-295: where the flush goes after InsertBatch.
\* sendToRetry, lines 307-313: without a retry writer everything goes to dead.
AfterInsertAlwaysCommit(err, retryWriter) == "commit"
AfterInsert(err, retryWriter) ==
    IF ~err THEN "commit"
    ELSE IF retryWriter THEN "escalate" ELSE "deadAll"

\* ClickHouseRepository.InsertBatch, called by flushWithContext.
InsertBatch(c) ==
    \E err \in InsertOutcomes :
        LET cr == cons[c]
        IN /\ cr.pc = "insert"
           /\ store' = IF err THEN store
                       ELSE store \o [k \in 1..Len(cr.events) |-> cr.events[k].id]
           /\ cons' = [cons EXCEPT ![c] =
                         [cr EXCEPT !.pc = AfterInsert(err, cfg.retryWriter),
                                    !.inserted = TRUE, !.insertErr = err]]
           /\ UNCHANGED <<pending, published, app, trip, resp, topics, dead, lbBytes, acked, rejected, cfg,
                          env, committed, decoded, lost, poisoned, crashes>>

\* flushWithContext, lines 286-303, and sendToRetry, lines 385-391: a
\* failed commit is logged and the flush returns as after a successful one.
OnCommitErrorRequeues(cr) ==
    Return([cr EXCEPT !.batch = cr.events \o @, !.messages = cr.msgs \o @], "err")
OnCommitError(cr) == Return(cr, "err")

\* Reader.CommitMessages(ctx, messages...) at the end of a flush, after a
\* successful insert (pc = "commit") or a successful retry publish
\* (pc = "retryCommit"); an error is logged and the flush returns.
CommitBatch(c) ==
    \E err \in LogOutcomes, merge \in BOOLEAN :
        LET cr == cons[c]
        IN /\ cr.pc \in {"commit", "retryCommit"}
           /\ err => ~merge
           /\ committed' = IF err THEN committed
                           ELSE [committed EXCEPT ![c] =
                                    CommitOffsets(@, cr.msgs, merge)]
           /\ cons' = [cons EXCEPT ![c] =
                         IF err THEN OnCommitError(cr) ELSE Return(cr, "ok")]
           /\ UNCHANGED <<pending, published, app, trip, resp, topics, dead, store, lbBytes, acked, rejected,
                          cfg, env, decoded, lost, poisoned, crashes>>

\* sendSingleToDead: the dead topic and the lost set after publishing ev;
\* without a dead writer, or on a write error, the event is dropped.
SendSingleToDead(ev, err) ==
    IF ~cfg.deadWriter \/ err
    THEN [dead |-> dead, lost |-> lost \cup {ev.id}, disp |-> "deadfail"]
    ELSE [dead |-> Append(dead, DeadLetter(ev)), lost |-> lost, disp |-> "dead"]

\* sendToRetry, lines 364-377: after the loop, nothing to publish returns
\* without a commit, else the retry publish follows.
AfterEscalation(retryMessages) ==
    IF Len(retryMessages) = 0 THEN "loop" ELSE "retryWrite"

\* sendToRetry, lines 320-362: one iteration of the loop over the batch.
Escalate(c) ==
    \E deadErr \in LogOutcomes :
        LET cr == cons[c]
            ev == cr.events[cr.i]
            n == NewCount(cr.msgs[cr.i])
            toDead == ExceedsMaxRetries(n, cfg.maxRetries)
            sent == SendSingleToDead(ev, deadErr)
            queue == IF toDead THEN cr.retryMessages
                     ELSE Append(cr.retryMessages, RetryMessage(ev, n))
            last == cr.i = Len(cr.events)
        IN /\ cr.pc = "escalate"
           /\ ~toDead => ~deadErr
           /\ dead' = IF toDead THEN sent.dead ELSE dead
           /\ lost' = IF toDead THEN sent.lost ELSE lost
           /\ cons' = [cons EXCEPT ![c] = Settle(
                         [cr EXCEPT !.i = @ + 1,
                                    !.retryMessages = queue,
                                    !.disp[cr.i] = IF toDead THEN sent.disp ELSE "queued",
                                    !.pc = IF last THEN AfterEscalation(queue)
                                           ELSE "escalate"])]
           /\ UNCHANGED <<pending, published, app, trip, resp, topics, store, lbBytes, acked, rejected, cfg,
                          env, committed, decoded, poisoned, crashes>>

\* sendToRetry, lines 368-391: where the flush goes after the retry publish.
AfterRetryWriteNoCommit(err) == IF err THEN "deadAll" ELSE "loop"
AfterRetryWriteDropsOnError(err) == IF err THEN "loop" ELSE "retryCommit"
AfterRetryWrite(err) == IF err THEN "deadAll" ELSE "retryCommit"

\* retryWriter.WriteMessages(ctx, retryMessages...).
RetryWrite(c) ==
    \E err \in LogOutcomes :
        LET cr == cons[c]
        IN /\ cr.pc = "retryWrite"
           /\ TopicLen("retry") + Len(cr.retryMessages) <= MaxRetryLog
           /\ topics' = IF err THEN topics
                        ELSE WriteAll(topics, "retry", cr.retryMessages)
           /\ cons' = [cons EXCEPT ![c] = Settle(
                         [cr EXCEPT !.pc = AfterRetryWrite(err),
                                    !.i = 1,
                                    !.retryOK = ~err,
                                    !.disp = IF err THEN cr.disp
                                             ELSE [k \in 1..Len(cr.disp) |->
                                                     IF cr.disp[k] = "queued"
                                                     THEN "retry" ELSE cr.disp[k]]])]
           /\ UNCHANGED <<pending, published, app, trip, resp, dead, store, lbBytes, acked, rejected, cfg,
                          env, committed, decoded, lost, poisoned, crashes>>

\* sendToDead: one iteration of the loop over all events of the batch; the
\* flush returns after the last one, without a commit.
SendToDead(c) ==
    \E deadErr \in LogOutcomes :
        LET cr == cons[c]
            sent == SendSingleToDead(cr.events[cr.i], deadErr)
        IN /\ cr.pc = "deadAll"
           /\ dead' = sent.dead
           /\ lost' = sent.lost
           /\ cons' = [cons EXCEPT ![c] = Settle(
                         [cr EXCEPT !.i = @ + 1,
                                    !.disp[cr.i] = sent.disp,
                                    !.pc = IF cr.i = Len(cr.events) THEN "loop"
                                           ELSE "deadAll"])]
           /\ UNCHANGED <<pending, published, app, trip, resp, topics, store, lbBytes, acked, rejected, cfg,
                          env, committed, decoded, poisoned, crashes>>

\* The consumer process dies and is started again: its memory is gone and
\* its reader resumes at the committed offsets of its group.
\* The events of the store the restarted reader of topic c gets again.
Redelivered(c) ==
    {e \in EventIds :
        /\ InStore(e)
        /\ \E p \in Partitions : \E k \in 1..Len(topics[c][p]) :
              topics[c][p][k].id = e /\ k - 1 >= committed[c][p]}

Crash(c) ==
    /\ crashes < MaxCrashes
    /\ crashes' = crashes + 1
    /\ cons' = [cons EXCEPT ![c] =
                  [ConsStart(committed[c]) EXCEPT
                     !.redelivered = cons[c].redelivered \cup Redelivered(c)]]
    /\ UNCHANGED <<pending, published, app, trip, resp, topics, dead, store, lbBytes, acked, rejected, cfg,
                   env, committed, decoded, lost, poisoned>>

(* ------------------------------ shutdown ------------------------------- *)
\* Start, lines 155-158: the ticker is created and Start registers itself
\* with the wait group.
StartRegister(c) ==
    /\ cons[c].pc = "init"
    /\ cons' = [cons EXCEPT ![c] = [@ EXCEPT !.pc = "loop", !.wg = @ + 1]]
    /\ UNCHANGED <<pending, published, app, trip, resp, topics, dead, store, lbBytes, acked, rejected, cfg,
                   env, committed, decoded, lost, poisoned, crashes>>

\* Start, lines 162-171: on ctx.Done() or done the buffer is flushed under
\* context.Background() and Start returns after that flush.
ShutdownReturnsAtOnce(cr) == [cr EXCEPT !.pc = "returned", !.wg = @ - 1]
ShutdownFlush(cr) ==
    LET d == [cr EXCEPT !.draining = TRUE]
    IN IF Len(cr.batch) = 0 THEN Return(d, d.commit) ELSE BeginFlush(d)

Shutdown(c) ==
    /\ cons[c].pc = "loop"
    /\ cons[c].batchLock = "free"
    /\ ShutdownSignalled(cons[c])
    /\ cons' = [cons EXCEPT ![c] = ShutdownFlush(@)]
    /\ UNCHANGED <<pending, published, app, trip, resp, topics, dead, store, lbBytes, acked, rejected, cfg,
                   env, committed, decoded, lost, poisoned, crashes>>

\* The consumer main after the signal: cancel().
Cancel(c) ==
    /\ cons[c].ctx = "live"
    /\ cons[c].stop = "idle"
    /\ cons' = [cons EXCEPT ![c].ctx = "cancelled"]
    /\ UNCHANGED <<pending, published, app, trip, resp, topics, dead, store, lbBytes, acked, rejected, cfg,
                   env, committed, decoded, lost, poisoned, crashes>>

\* Stop, line 467: close(c.done).
StopClose(c) ==
    /\ cons[c].stop = "idle"
    /\ cons' = [cons EXCEPT ![c] = [@ EXCEPT !.done = "closed", !.stop = "waiting"]]
    /\ UNCHANGED <<pending, published, app, trip, resp, topics, dead, store, lbBytes, acked, rejected, cfg,
                   env, committed, decoded, lost, poisoned, crashes>>

\* Stop, line 468: c.wg.Wait() returns when the counter is zero.
StopWaitReturnsAtOnce(c) ==
    /\ cons[c].stop = "waiting"
    /\ cons' = [cons EXCEPT ![c].stop = "returned"]
    /\ UNCHANGED <<pending, published, app, trip, resp, topics, dead, store, lbBytes, acked, rejected, cfg,
                   env, committed, decoded, lost, poisoned, crashes>>
StopWait(c) ==
    /\ cons[c].stop = "waiting"
    /\ cons[c].wg = 0
    /\ cons' = [cons EXCEPT ![c].stop = "returned"]
    /\ UNCHANGED <<pending, published, app, trip, resp, topics, dead, store, lbBytes, acked, rejected, cfg,
                   env, committed, decoded, lost, poisoned, crashes>>

\* The consumer main after consumer.Stop() has returned: it closes the
\* reader, the retry writer, the dead writer and the ClickHouse connection,
\* in this order (the metrics server is shut down before them).
CloseOrder == <<"reader", "retryWriter", "deadWriter", "clickhouse">>

CloseResource(c) ==
    /\ cons[c].stop = "returned"
    /\ Len(cons[c].closed) < Len(CloseOrder)
    /\ cons' = [cons EXCEPT ![c].closed =
                  Append(@, CloseOrder[Len(cons[c].closed) + 1])]
    /\ UNCHANGED <<pending, published, app, trip, resp, topics, dead, store, lbBytes, acked, rejected, cfg,
                   env, committed, decoded, lost, poisoned, crashes>>

(* -------------------------- the ingest process ------------------------- *)
\* cmd/server main: the HTTP server is listening, no request is in flight,
\* the Kafka writer and the ClickHouse connection are open. pc is the
\* position of AppContext.Shutdown ("run": not called), timedOut whether
\* Server.Shutdown returned the error of its context, lateProduce whether
\* a handler called Produce after the writer was closed.
AppStart ==
    [pc |-> "run", listening |-> TRUE, inflight |-> 0, timedOut |-> FALSE,
     producer |-> "open", clickhouse |-> "open", lateProduce |-> FALSE]

\* server.ListenAndServe: a connection is accepted and its handler started.
Accept ==
    /\ app.listening
    /\ app.inflight < MaxInflight
    /\ app' = [app EXCEPT !.inflight = @ + 1]
    /\ UNCHANGED <<pending, published, trip, resp, topics, dead, store, lbBytes, acked, rejected,
                   cfg, env, cons, committed, decoded, lost, poisoned, crashes>>

\* Writer.WriteMessages on a closed writer returns an error.
ProduceOutcomes == IF app.producer = "closed" THEN {TRUE} ELSE BOOLEAN

\* The handler of an accepted POST /api/events runs to its response; the
\* process is gone once Shutdown has returned.
ServeIngest ==
    \E req \in Requests :
      \E produceErr \in ProduceOutcomes :
        /\ app.inflight > 0
        /\ app.pc # "done"
        /\ Ingest(req, produceErr)
        /\ app' = [app EXCEPT
                     !.inflight = @ - 1,
                     !.lateProduce = @ \/ (ProduceCalled(req)
                                           /\ app.producer = "closed")]

\* Handler.HealthCheck: no dependency is looked at.
HealthStatus == 200

HealthCheck ==
    /\ env.recorder
    /\ app.listening
    /\ resp' = [NoResponse EXCEPT !.op = "health", !.status = HealthStatus]
    /\ UNCHANGED <<pending, published, app, trip, topics, dead, store, lbBytes, acked, rejected,
                   cfg, env, cons, committed, decoded, lost, poisoned, crashes>>

\* Handler.ReadinessCheck: the status follows the error of repository.Ping.
ReadyStatusAlwaysReady(pingErr) == 200
ReadyStatus(pingErr) == IF pingErr THEN 503 ELSE 200

PingOutcomes == IF env.storeDown THEN {TRUE} ELSE BOOLEAN

\* The response records the probe's view: queried (Ping was called) and
\* repoErr (Ping returned an error).
ReadinessCheck ==
    \E pingErr \in PingOutcomes :
        /\ env.recorder
        /\ app.listening
        /\ resp' = [NoResponse EXCEPT !.op = "ready",
                                      !.status = ReadyStatus(pingErr),
                                      !.queried = TRUE, !.repoErr = pingErr]
        /\ UNCHANGED <<pending, published, app, trip, topics, dead, store, lbBytes, acked,
                       rejected, cfg, env, cons, committed, decoded, lost,
                       poisoned, crashes>>

\* WaitForShutdown: the signal arrives, AppContext.Shutdown starts and
\* calls Server.Shutdown, which closes the listeners at once.
SignalShutdown ==
    /\ app.pc = "run"
    /\ app' = [app EXCEPT !.pc = "server", !.listening = FALSE]
    /\ UNCHANGED <<pending, published, trip, resp, topics, dead, store, lbBytes, acked, rejected,
                   cfg, env, cons, committed, decoded, lost, poisoned, crashes>>

\* AppContext.Shutdown, lines 301-334: the order of its steps; the ingest
\* process has no Kafka reader, so step 3 is skipped.
NextCloseStoreFirst(pc) ==
    IF pc = "server" THEN "clickhouse"
    ELSE IF pc = "clickhouse" THEN "producer"
    ELSE "done"
NextClose(pc) ==
    IF pc = "server" THEN "producer"
    ELSE IF pc = "producer" THEN "clickhouse"
    ELSE "done"

\* Server.Shutdown(ctx) returns nil once no connection is active, or the
\* error of ctx when its timeout (30 s) expires first; Shutdown logs the
\* error and goes on.
ServerShutdown ==
    /\ app.pc = "server"
    /\ app' = [app EXCEPT !.pc = NextClose(@), !.timedOut = app.inflight > 0]
    /\ UNCHANGED <<pending, published, trip, resp, topics, dead, store, lbBytes, acked, rejected,
                   cfg, env, cons, committed, decoded, lost, poisoned, crashes>>

\* c.Producer.Close().
ProducerClose ==
    /\ app.pc = "producer"
    /\ app' = [app EXCEPT !.pc = NextClose(@), !.producer = "closed"]
    /\ UNCHANGED <<pending, published, trip, resp, topics, dead, store, lbBytes, acked, rejected,
                   cfg, env, cons, committed, decoded, lost, poisoned, crashes>>

\* c.ClickHouse.Close().
ClickHouseClose ==
    /\ app.pc = "clickhouse"
    /\ app' = [app EXCEPT !.pc = NextClose(@), !.clickhouse = "closed"]
    /\ UNCHANGED <<pending, published, trip, resp, topics, dead, store, lbBytes, acked, rejected,
                   cfg, env, cons, committed, decoded, lost, poisoned, crashes>>

(* ------------------------- the codec round trip ------------------------ *)
\* An event is serialized by ToKafkaMessage and the value parsed back.
RoundTrip ==
    \E e \in ValidEvents :
        /\ trip' = [made |-> TRUE, event |-> e, value |-> ToKafkaMessage(e),
                    back |-> DecodeKafkaMessage(ToKafkaMessage(e))]
        /\ UNCHANGED <<pending, published, app, resp, topics, dead, store, lbBytes, acked, rejected,
                       cfg, env, cons, committed, decoded, lost, poisoned,
                       crashes>>

(* --------------------------- specifications ---------------------------- *)
Configs(batchSizes, maxRetries, retryWriters) ==
    {NewBatchConsumer([BatchSize |-> b, FlushInterval |-> DefaultFlushInterval,
                       MaxRetries |-> r, RetryWriter |-> w,
                       DeadWriter |-> TRUE]) :
        b \in batchSizes, r \in maxRetries, w \in retryWriters}

InitFrom(configs, envs, start) ==
    /\ topics = [t \in Topics |-> [p \in Partitions |-> <<>>]]
    /\ dead = <<>>
    /\ store = <<>>
    /\ lbBytes = [p \in Partitions |-> 0]
    /\ acked = {}
    /\ rejected = {}
    /\ cfg \in configs
    /\ env \in envs
    /\ cons = [c \in Consumers |-> start]
    /\ committed = [c \in Consumers |-> [p \in Partitions |-> 0]]
    /\ decoded = {}
    /\ lost = {}
    /\ poisoned = 0
    /\ crashes = 0
    /\ resp = NoResponse
    /\ app = AppStart
    /\ trip = NoTrip
    /\ pending = NoPending
    /\ published = <<>>

\* The consumer loop is running when the run starts.
InitWith(configs, envs) ==
    InitFrom(configs, envs, ConsStart([p \in Partitions |-> 0]))

Env(storeDown, logFaults, maxLog) ==
    [storeDown |-> storeDown, logFaults |-> logFaults, maxLog |-> maxLog,
     recorder |-> FALSE, storeUp |-> FALSE]

\* The same environment with a client that keeps the responses it gets.
Recorded(e) == [e EXCEPT !.recorder = TRUE]

\* The same environment with a store that never fails.
Healthy(e) == [e EXCEPT !.storeUp = TRUE]

Init == InitWith(Configs(1..MaxCfgBatch, {MaxCfgRetries}, BOOLEAN),
                 {Env(FALSE, TRUE, MaxLog)})

Next ==
    \/ IngestEvent
    \/ InjectPoison
    \/ Fetch("events")
    \/ FetchError("events")
    \/ TickerFlush("events")
    \/ InsertBatch("events")
    \/ CommitBatch("events")
    \/ Escalate("events")
    \/ RetryWrite("events")
    \/ SendToDead("events")
    \/ Crash("events")

Spec == Init /\ [][Next]_vars

\* The symmetric deployment: a second instance of the consumer whose reader
\* is pointed at the retry topic.
InitSym == InitWith(Configs({MaxCfgBatch}, {MaxCfgRetries}, {TRUE}),
                    {Env(d, TRUE, MaxLog) : d \in BOOLEAN})

NextSym ==
    \/ IngestEvent
    \/ \E c \in Consumers : Fetch(c)
    \/ \E c \in Consumers : FetchError(c)
    \/ \E c \in Consumers : TickerFlush(c)
    \/ \E c \in Consumers : InsertBatch(c)
    \/ \E c \in Consumers : CommitBatch(c)
    \/ \E c \in Consumers : Escalate(c)
    \/ \E c \in Consumers : RetryWrite(c)
    \/ \E c \in Consumers : SendToDead(c)

SpecSym == InitSym /\ [][NextSym]_vars

\* One accepted event, the store down for good, the log healthy; max_retries
\* as configured (0 stands for an unset CONSUMER_MAX_RETRIES).
ChainMaxRetries == {0, 1, ByteRange - 1, ByteRange}

InitChain == InitWith(Configs({1}, ChainMaxRetries, {TRUE}), {Env(TRUE, FALSE, 1)})

NextChain ==
    \/ IngestEvent
    \/ \E c \in Consumers : Fetch(c)
    \/ \E c \in Consumers : FetchError(c)
    \/ \E c \in Consumers : TickerFlush(c)
    \/ \E c \in Consumers : InsertBatch(c)
    \/ \E c \in Consumers : CommitBatch(c)
    \/ \E c \in Consumers : Escalate(c)
    \/ \E c \in Consumers : RetryWrite(c)

SpecChain == InitChain /\ [][NextChain]_vars

\* The HTTP service seen by a client that keeps the response of its last
\* request, with the pipeline behind it.
InitHttp == InitWith(Configs({1}, {MaxCfgRetries}, {TRUE}),
                     {Recorded(Env(FALSE, FALSE, MaxLog))})

NextHttp ==
    \/ IngestEvent
    \/ GetMatchMetrics
    \/ Fetch("events")
    \/ FetchError("events")
    \/ TickerFlush("events")
    \/ InsertBatch("events")
    \/ CommitBatch("events")
    \/ Escalate("events")
    \/ RetryWrite("events")

SpecHttp == InitHttp /\ [][NextHttp]_vars

\* The metrics endpoint over a store as the pipeline can leave it (rows in
\* any order, a row more than once), the log having expired.
RECURSIVE Stores(_)
Stores(n) ==
    IF n = 0 THEN {<<>>}
    ELSE Stores(n - 1) \cup
         {Append(st, e) : st \in {x \in Stores(n - 1) : Len(x) = n - 1},
                          e \in MetricIds}

InitPeak ==
    /\ topics = [t \in Topics |-> [p \in Partitions |-> <<>>]]
    /\ dead = <<>>
    /\ store \in Stores(MaxPeakStore)
    /\ lbBytes = [p \in Partitions |-> 0]
    /\ acked = {store[k] : k \in 1..Len(store)}
    /\ rejected = {}
    /\ cfg \in Configs({1}, {MaxCfgRetries}, {TRUE})
    /\ env = Recorded(Env(FALSE, FALSE, 0))
    /\ cons = [c \in Consumers |-> ConsStart([p \in Partitions |-> 0])]
    /\ committed = [c \in Consumers |-> [p \in Partitions |-> 0]]
    /\ decoded = acked
    /\ lost = {}
    /\ poisoned = 0
    /\ crashes = 0
    /\ resp = NoResponse
    /\ app = AppStart
    /\ trip = NoTrip
    /\ pending = NoPending
    /\ published = <<>>

NextPeak == GetMatchMetrics

SpecPeak == InitPeak /\ [][NextPeak]_vars

\* The consumer process from go consumer.Start(ctx) to the return of Stop:
\* the goroutine running Start and the main goroutine calling cancel() and
\* Stop() in any interleaving.
InitStop == InitFrom(Configs({MaxCfgBatch}, {MaxCfgRetries}, BOOLEAN),
                     {Env(FALSE, TRUE, MaxLog)},
                     Spawned(ConsStart([p \in Partitions |-> 0])))

NextStop ==
    \/ IngestEvent
    \/ StartRegister("events")
    \/ Fetch("events")
    \/ FetchError("events")
    \/ TickerFlush("events")
    \/ InsertBatch("events")
    \/ CommitBatch("events")
    \/ Escalate("events")
    \/ RetryWrite("events")
    \/ SendToDead("events")
    \/ Cancel("events")
    \/ StopClose("events")
    \/ StopWait("events")
    \/ Shutdown("events")
    \/ CloseResource("events")

SpecStop == InitStop /\ [][NextStop]_vars

\* The pipeline with the log and the store available for good: publishes
\* to the log, commits and inserts do not fail. The ticker keeps firing,
\* the reader keeps delivering and a call that was started returns.
InitLive == InitWith(Configs(1..MaxCfgBatch, {MaxCfgRetries}, {TRUE}),
                     {Healthy(Env(FALSE, FALSE, MaxLog))})

NextLive ==
    \/ IngestEvent
    \/ Fetch("events")
    \/ FetchError("events")
    \/ TickerFlush("events")
    \/ InsertBatch("events")
    \/ CommitBatch("events")

FairLive ==
    /\ WF_vars(Fetch("events"))
    /\ WF_vars(TickerFlush("events"))
    /\ WF_vars(InsertBatch("events"))
    /\ WF_vars(CommitBatch("events"))

SpecLive == InitLive /\ [][NextLive]_vars /\ FairLive

\* The ingest process of cmd/server from its start to the end of its
\* graceful shutdown, with probes, seen by a client that keeps the last
\* response.
InitServe == InitWith(Configs({1}, {MaxCfgRetries}, {TRUE}),
                      {Recorded(Env(d, FALSE, MaxLog)) : d \in BOOLEAN})

NextServe ==
    \/ Accept
    \/ ServeIngest
    \/ HealthCheck
    \/ ReadinessCheck
    \/ SignalShutdown
    \/ ServerShutdown
    \/ ProducerClose
    \/ ClickHouseClose

SpecServe == InitServe /\ [][NextServe]_vars

\* The serialization of events for the log, over the events ToEvent returns.
InitCodec == InitWith(Configs({1}, {MaxCfgRetries}, {TRUE}),
                      {Env(FALSE, FALSE, 0)})

NextCodec == RoundTrip

SpecCodec == InitCodec /\ [][NextCodec]_vars

\* The pipeline with a healthy log and store, and a client that posts
\* events and reads match metrics while the consumer inserts; the
\* repository's queries of one metrics request are separate steps.
InitRead == InitWith(Configs({MaxCfgBatch}, {MaxCfgRetries}, {TRUE}),
                     {Healthy(Recorded(Env(FALSE, FALSE, MaxLog)))})

NextRead ==
    \/ IngestEvent
    \/ Fetch("events")
    \/ FetchError("events")
    \/ TickerFlush("events")
    \/ InsertBatch("events")
    \/ CommitBatch("events")
    \/ QuerySummary
    \/ FinishMetrics

SpecRead == InitRead /\ [][NextRead]_vars

\* The consumer built by NewBatchConsumer from any configuration (values
\* below, at and above zero), running against a healthy log and store.
CfgValues == {-1, 0, 1, MaxCfgBatch}

InitCfg ==
    InitWith({NewBatchConsumer([BatchSize |-> b, FlushInterval |-> f,
                                MaxRetries |-> r, RetryWriter |-> TRUE,
                                DeadWriter |-> TRUE]) :
                 b \in CfgValues, f \in CfgValues, r \in CfgValues},
             {Healthy(Env(FALSE, FALSE, MaxLog))})

NextCfg ==
    \/ IngestEvent
    \/ Fetch("events")
    \/ FetchError("events")
    \/ TickerFlush("events")
    \/ InsertBatch("events")
    \/ CommitBatch("events")

SpecCfg == InitCfg /\ [][NextCfg]_vars


(* ------------------------------- claims -------------------------------- *)
\* The records of the events topic a restarted consumer would still get.
Uncommitted(e) ==
    \E p \in Partitions : \E k \in 1..Len(topics["events"][p]) :
        /\ topics["events"][p][k].id = e
        /\ k - 1 >= committed["events"][p]

\* C1: every event answered 202 has its record on the events topic.
C1_AckedIsOnPrimary == \A e \in acked : OnTopic("events", e)

C1_Witness == acked # {} /\ rejected # {}

\* C2: every event answered 202 and decoded by the consumer is on the
\* events topic at or after the committed offset, in the store, on retry or
\* on dead, unless a dead-letter publish of it failed.
C2_NoLossButDeadFailure ==
    \A e \in acked \cap decoded :
        \/ e \in lost
        \/ Uncommitted(e)
        \/ InStore(e)
        \/ OnTopic("retry", e)
        \/ OnDead(e)

\* C3: an event whose only answers were 503 is on no topic, in no consumer
\* buffer and not in the store.
C3_RejectedIsNowhere ==
    \A e \in rejected \ acked :
        /\ ~OnTopic("events", e)
        /\ ~OnTopic("retry", e)
        /\ ~OnDead(e)
        /\ ~InStore(e)
        /\ e \notin decoded

C3_Witness == rejected \ acked # {} /\ acked # {} /\ store # <<>>

\* C4: all records of one match on the events topic are on one partition
\* (where their offsets follow the order in which they were accepted).
C4_SameMatchSamePartition ==
    \A p, q \in Partitions :
        \A k \in 1..Len(topics["events"][p]), l \in 1..Len(topics["events"][q]) :
            /\ topics["events"][p][k].id # 0
            /\ topics["events"][q][l].id # 0
            /\ topics["events"][p][k].m = topics["events"][q][l].m
            => p = q

RECURSIVE ClaimedQueue(_, _, _)
\* The retry records the first k records of a failed batch give rise to
\* when each record with new_count <= max_retries is republished with the
\* header retry_count = new_count.
ClaimedQueue(msgs, k, maxRetries) ==
    IF k = 0 THEN <<>>
    ELSE LET q == ClaimedQueue(msgs, k - 1, maxRetries)
             n == RetryCountOf(msgs[k]) + 1
         IN IF n <= maxRetries THEN Append(q, Record(msgs[k].id, msgs[k].m, n))
            ELSE q

\* C6: during the escalation of a failed batch, the records queued for the
\* retry topic are those with new_count <= max_retries, each with header
\* retry_count = new_count, and the records handed to the dead-letter
\* publish are those with new_count > max_retries.
C6_EscalationByNewCount ==
    \A c \in Consumers :
        cons[c].pc \in {"escalate", "retryWrite"} =>
            LET done == IF cons[c].pc = "retryWrite" THEN Len(cons[c].msgs)
                        ELSE cons[c].i - 1
            IN /\ cons[c].retryMessages = ClaimedQueue(cons[c].msgs, done, cfg.maxRetries)
               /\ \A k \in 1..done :
                     (cons[c].disp[k] \in {"dead", "deadfail"})
                        <=> (RetryCountOf(cons[c].msgs[k]) + 1 > cfg.maxRetries)

\* The re-publishes of the one event of SpecChain, in publish order, are
\* the records of the one partition of the retry topic its key hashes to.
Chain(p) == topics["retry"][p]

\* C7: with the store down for good, the first failed cycle republishes the
\* event with retry_count = 1, no more than max_retries cycles republish it
\* to retry, and once the retry consumer is through with the record of
\* cycle max_retries the event is on dead with a reason.
C7_DeadAfterMaxRetriesPlusOne ==
    \A p \in Partitions :
        /\ Len(Chain(p)) >= 1 => Chain(p)[1].rc = 1
        /\ Len(Chain(p)) <= cfg.maxRetries
        /\ \A k \in 1..Len(dead) : dead[k].reason # ""
        /\ ( /\ Len(Chain(p)) = cfg.maxRetries
             /\ cons["retry"].pos[p] = cfg.maxRetries
             /\ cons["retry"].pc = "loop"
             /\ cons["retry"].batch = <<>> )
           => \A e \in acked : OnDead(e)

\* C8: along the chain of re-publishes of an event the retry_count header
\* never decreases.
C8_RetryCountMonotone ==
    \A p \in Partitions :
        \A k \in 1..(Len(Chain(p)) - 1) : Chain(p)[k].rc <= Chain(p)[k + 1].rc

\* C9: a successful retry publish of a failed batch is followed by the
\* commit call for the whole batch, and when that call succeeds the group
\* offset of every partition is past every record of the batch (a restart
\* resumes at the group offsets: see Crash).
C9_CommitAfterRetryPublish ==
    [][\A c \in Consumers :
         /\ ( /\ cons[c].pc = "retryWrite"
              /\ cons'[c] # cons[c]
              /\ topics' # topics )
            => /\ cons'[c].pc = "retryCommit"
               /\ cons'[c].msgs = cons[c].msgs
         /\ ( /\ cons[c].pc = "retryCommit"
              /\ cons'[c].pc = "loop"
              /\ cons'[c].commit = "ok" )
            => \A k \in 1..Len(cons[c].msgs) :
                  committed'[c][cons[c].msgs[k].p] > cons[c].msgs[k].off]_vars

C9_Witness ==
    /\ cons["events"].pc = "loop"
    /\ cons["events"].commit = "ok"
    /\ cons["events"].parseErrors = 0
    /\ store = <<>>
    /\ TopicLen("retry") > 0
    /\ \E p \in Partitions : committed["events"][p] > 0

\* C10: a flush whose bulk insert failed ends with the commit call for the
\* batch (the flush returns from the commit step).
C10_FailedFlushEndsWithCommit ==
    [][\A c \in Consumers :
         ( /\ cons[c].pc # "loop"
           /\ cons[c].insertErr
           /\ cons'[c].pc = "loop"
           /\ crashes' = crashes )
         => cons[c].pc = "retryCommit"]_vars

\* C11: a failed retry publish hands every event of the failed batch to the
\* dead-letter publish, one after the other from the first to the last: each
\* step appends the dead letter of the next event to the dead topic, or the
\* publish of that event failed, and the flush ends only after the last one.
C11_RetryFailureDeadLettersAll ==
    [][\A c \in Consumers :
         /\ ( /\ cons[c].pc = "retryWrite"
              /\ cons'[c] # cons[c]
              /\ topics' = topics
              /\ crashes' = crashes )
            => /\ cons'[c].pc = "deadAll"
               /\ cons'[c].events = cons[c].events
               /\ cons'[c].i = 1
         /\ ( /\ cons[c].pc = "deadAll"
              /\ cons'[c] # cons[c]
              /\ crashes' = crashes )
            => LET ev == cons[c].events[cons[c].i]
               IN /\ \/ dead' = Append(dead, DeadLetter(ev))
                     \/ dead' = dead /\ ev.id \in lost'
                  /\ cons'[c].pc \in {"deadAll", "loop"}
                  /\ cons'[c].pc = "loop" => cons[c].i = Len(cons[c].events)
                  /\ cons'[c].pc = "deadAll"
                        => /\ cons'[c].i = cons[c].i + 1
                           /\ cons'[c].events = cons[c].events]_vars

\* A batch of two whose retry publish failed, its first event on dead.
C11_Witness ==
    /\ cons["events"].pc = "deadAll"
    /\ cons["events"].retryMessages # <<>>
    /\ Len(cons["events"].events) = 2
    /\ cons["events"].i = 2
    /\ OnDead(cons["events"].events[1].id)

\* The events held in the memory of consumer c: its live buffer and the
\* snapshot of the flush under way.
InMemory(c, e) ==
    \/ \E k \in 1..Len(cons[c].batch) : cons[c].batch[k].id = e
    \/ \E k \in 1..Len(cons[c].events) : cons[c].events[k].id = e

\* The consumer has fetched an undecodable record of partition p.
PoisonPassed(p) ==
    \E k \in 1..cons["events"].pos[p] : topics["events"][p][k].id = 0

\* C12: fetching a record that does not decode adds one to parse_error,
\* calls the commit for it (past its offset when the call succeeds) and adds
\* nothing to the batch or the store; no undecodable record is ever in a
\* buffer or in the store; and the valid records the consumer has fetched
\* from the partition of such a record are in its memory or have been
\* handed on (to the store, or after a failed insert to retry or dead).
C12_PoisonSkippedValidKept ==
    /\ [][\A p \in Partitions :
            ( /\ cons["events"].pc = "loop"
              /\ cons'["events"].pos[p] = cons["events"].pos[p] + 1
              /\ topics["events"][p][cons["events"].pos[p] + 1].id = 0 )
            => /\ cons'["events"].parseErrors = cons["events"].parseErrors + 1
               /\ cons'["events"].commit \in {"ok", "err"}
               /\ cons'["events"].commit = "ok"
                     => committed'["events"][p] > cons["events"].pos[p]
               /\ cons'["events"].batch = cons["events"].batch
               /\ cons'["events"].pc = "loop"
               /\ store' = store]_vars
    /\ [](/\ ~InMemory("events", 0)
          /\ ~InStore(0)
          /\ \A p \in Partitions :
                PoisonPassed(p) =>
                    \A k \in 1..cons["events"].pos[p] :
                        LET e == topics["events"][p][k].id
                        IN e # 0 => \/ InMemory("events", e)
                                    \/ InStore(e)
                                    \/ OnTopic("retry", e)
                                    \/ OnDead(e)
                                    \/ e \in lost)

\* The next record of partition p of the events topic does not decode.
PoisonNext(p) ==
    /\ cons["events"].pos[p] < Len(topics["events"][p])
    /\ topics["events"][p][cons["events"].pos[p] + 1].id = 0

\* C13 as claimed: the fetch of a record that does not decode leaves the
\* committed offset of its partition past the record, and the consumer is
\* back in its loop.
C13_ParseErrorCommitsPast ==
    [][\A p \in Partitions :
         ( /\ cons["events"].pc = "loop"
           /\ PoisonNext(p)
           /\ cons'["events"].pos[p] = cons["events"].pos[p] + 1 )
         => /\ committed'["events"][p] > cons["events"].pos[p]
            /\ cons'["events"].pc = "loop"]_vars

\* C13 as amended: a step of the loop that counts a parse error or moves a
\* committed offset is the fetch of a record that does not decode; it moves
\* the read position of the partition past the record and leaves the
\* consumer in its loop, whatever the outcome of the commit call, and the
\* committed offset is past the record when the call succeeded.
C13_ParseErrorNeverBlocks ==
    [][( /\ cons["events"].pc = "loop"
         /\ crashes' = crashes
         /\ \/ cons'["events"].parseErrors # cons["events"].parseErrors
            \/ committed'["events"] # committed["events"] )
       => \E p \in Partitions :
            /\ PoisonNext(p)
            /\ cons'["events"].pos[p] = cons["events"].pos[p] + 1
            /\ cons'["events"].pc = "loop"
            /\ cons'["events"].commit \in {"ok", "err"}
            /\ cons'["events"].commit = "ok"
                  => committed'["events"][p] > cons["events"].pos[p]]_vars

\* The commit call for an undecodable record failed and the consumer has
\* fetched the valid record behind it.
C13_Witness ==
    \E p \in Partitions :
        /\ cons["events"].pos[p] = 2
        /\ topics["events"][p][1].id = 0
        /\ committed["events"][p] = 0
        /\ cons["events"].commit = "err"
        /\ cons["events"].parseErrors = 1
        /\ Len(cons["events"].batch) = 1

\* The order of the checks and what each accepts, as claimed.
FieldOrder == <<"eventId", "matchId", "eventType", "timestamp", "teamId">>

FieldValid(req, f) ==
    CASE f = "eventId" -> req.eventId \in EventIds
      [] f = "matchId" -> req.matchId # ""
      [] f = "eventType" -> req.eventType \in ValidEventTypes
      [] f = "timestamp" -> req.timestamp = "rfc3339"
      [] f = "teamId" -> req.teamId \in {1, 2}

InvalidFields(req) == {k \in 1..Len(FieldOrder) : ~FieldValid(req, FieldOrder[k])}

\* C14: there are 11 event types, matched case-sensitively, and a decodable
\* request with invalid fields is answered 400 with the field that comes
\* first in the order eventId, matchId, eventType, timestamp, teamId.
C14_FirstInvalidFieldNamed ==
    /\ Cardinality(ValidEventTypes) = 11
    /\ "GOAL" \notin ValidEventTypes
    /\ ( /\ resp.op = "ingest"
         /\ resp.req.json
         /\ InvalidFields(resp.req) # {} )
       => /\ resp.status = 400
          /\ \E k \in InvalidFields(resp.req) :
                /\ \A j \in InvalidFields(resp.req) : k <= j
                /\ resp.field = FieldOrder[k]

\* The response to a request whose eventId and teamId are both invalid.
C14_Witness ==
    /\ resp.op = "ingest"
    /\ resp.req.json
    /\ resp.req.eventId = 0
    /\ resp.req.teamId = 3
    /\ resp.field = "eventId"

\* C15: a request whose body does not decode or that has an invalid field
\* is answered 400, and the step that answers it leaves the events topic
\* and the writer's balancer as they were.
C15_RejectedRequestNotPublished ==
    [][( /\ resp'.op = "ingest"
         /\ ~resp'.req.json \/ InvalidFields(resp'.req) # {} )
       => /\ resp'.status = 400
          /\ topics'["events"] = topics["events"]
          /\ lbBytes' = lbBytes]_vars

\* A body that does not decode, answered after an event was accepted.
C15_Witness ==
    /\ resp.op = "ingest"
    /\ ~resp.req.json
    /\ resp.status = 400
    /\ TopicLen("events") > 0

C17_StopWaitsForStart ==
    \A c \in Consumers : cons[c].stop = "returned" => cons[c].pc = "returned"

C19_MetricsStatusByOutcome ==
    resp.op = "metrics" =>
        /\ resp.matchId = "" => ~resp.queried
        /\ resp.status = IF resp.matchId = "" THEN 400
                         ELSE IF resp.repoErr THEN 500
                         ELSE IF resp.rows = 0 THEN 404
                         ELSE 200

\* A 500 for a match that has rows in the store.
C19_Witness ==
    /\ resp.op = "metrics"
    /\ resp.status = 500
    /\ resp.rows > 0

\* C20: a 200 metrics response sent after the per-minute query failed
\* carries the summary and no peak minute.
C20_NoPeakWhenFollowUpFails ==
    ( /\ resp.op = "metrics"
      /\ resp.status = 200
      /\ resp.followErr )
    => /\ resp.total = resp.rows
       /\ resp.peak = NoPeak

\* C21: a 200 metrics response built from per-minute rows carries no peak
\* minute when there are no rows, and else the peak is a minute of the rows
\* whose counts, summed over the event types, are not exceeded by those of
\* any other minute, with that sum as its eventCount.
C21_PeakIsMaxSummedMinute ==
    ( /\ resp.op = "metrics"
      /\ resp.status = 200
      /\ ~resp.followErr )
    => IF resp.perMinute = {} THEN resp.peak = NoPeak
       ELSE /\ \E r \in resp.perMinute : r.minute = resp.peak.minute
            /\ resp.peak.count =
                   CountSum({r \in resp.perMinute : r.minute = resp.peak.minute})
            /\ \A x \in resp.perMinute :
                   CountSum({r \in resp.perMinute : r.minute = x.minute})
                       <= resp.peak.count

\* A peak of three events summed over two event types of one minute.
C21_Witness ==
    /\ resp.op = "metrics"
    /\ resp.status = 200
    /\ ~resp.followErr
    /\ Cardinality(resp.perMinute) = 2
    /\ resp.peak.count = 3

\* C22: two successive 200 metrics responses for the same match built from
\* the same per-minute rows carry the same peak minute.
C22_PeakDeterministic ==
    [][( /\ resp.op = "metrics" /\ resp'.op = "metrics"
         /\ resp.status = 200 /\ resp'.status = 200
         /\ ~resp.followErr /\ ~resp'.followErr
         /\ resp.matchId = resp'.matchId
         /\ resp.perMinute = resp'.perMinute )
       => resp'.peak = resp.peak]_vars

\* C23: when the offset commit fails after a successful bulk insert, the
\* flush ends like a successful one: nothing is published to retry or dead,
\* nothing is inserted, no event of the batch is back in the buffers, the
\* reader and the group offsets do not move and the consumer is in its
\* loop again, ready for the next batch.
C23_CommitFailureKeepsSuccess ==
    [][\A c \in Consumers :
         ( /\ cons[c].pc = "commit"
           /\ cons'[c].pc # "commit"
           /\ cons'[c].commit = "err" )
         => /\ topics' = topics
            /\ dead' = dead
            /\ lost' = lost
            /\ store' = store
            /\ committed' = committed
            /\ cons'[c].pc = "loop"
            /\ cons'[c].batch = cons[c].batch
            /\ cons'[c].messages = cons[c].messages
            /\ cons'[c].pos = cons[c].pos]_vars

C23_Witness ==
    /\ cons["events"].pc = "loop"
    /\ cons["events"].commit = "err"
    /\ Len(store) = 1
    /\ Len(cons["events"].batch) = 1
    /\ cons["events"].batch[1].id # store[1]
    /\ \A p \in Partitions : committed["events"][p] = 0
    /\ dead = <<>>
    /\ TopicLen("retry") = 0
    /\ crashes = 0
    /\ poisoned = 0

\* C24: a flush of an empty buffer does nothing: from the loop with an
\* empty buffer, a step that fetches no record starts no insert, commits
\* no offset and publishes nothing to retry or dead (the final flush of an
\* empty buffer only lets Start return).
C24_EmptyFlushDoesNothing ==
    [][\A c \in Consumers :
         ( /\ cons[c].pc = "loop"
           /\ cons[c].batch = <<>>
           /\ cons'[c].pos = cons[c].pos )
         => /\ cons'[c].pc \in {"loop", "returned"}
            /\ cons'[c].batch = <<>>
            /\ store' = store
            /\ committed' = committed
            /\ dead' = dead
            /\ topics'["retry"] = topics["retry"]]_vars

C24_Witness ==
    /\ cons["events"].pc = "returned"
    /\ cons["events"].draining
    /\ \A p \in Partitions : cons["events"].pos[p] = 0
    /\ TopicLen("events") > 0
    /\ store = <<>>
    /\ dead = <<>>
    /\ TopicLen("retry") = 0
    /\ \A p \in Partitions : committed["events"][p] = 0

\* C25: every row of the store carries the id of an event that was
\* answered 202, whether it came from the events topic or from retry.
C25_StoreOnlyAccepted ==
    /\ \A k \in 1..Len(store) : store[k] \in acked
    /\ \A e \in EventIds : OnTopic("retry", e) => e \in acked

C25_Witness ==
    \E e \in EventIds :
        /\ InStore(e)
        /\ OnTopic("retry", e)
        /\ TopicLen("events") = 1
        /\ e \in acked
        /\ rejected # {}

\* The rows of the store with event id e, and the records of the events
\* topic with event id e (a client may send an event more than once).
StoreCount(e) == Cardinality({k \in 1..Len(store) : store[k] = e})
RecordCount(e) ==
    SeqSum([p \in Partitions |->
              Cardinality({k \in 1..Len(topics["events"][p]) :
                             topics["events"][p][k].id = e})])

C28_KafkaMessageRoundTrip ==
    trip.made => /\ trip.back.ok
                 /\ trip.back.event.id = trip.event.id
                 /\ trip.back.event.m = trip.event.m
                 /\ trip.back.event.eventType = trip.event.eventType
                 /\ trip.back.event.timestamp = trip.event.timestamp
                 /\ trip.back.event.teamId = trip.event.teamId
                 /\ trip.back.event.playerId = trip.event.playerId

C28_Witness ==
    /\ trip.made
    /\ trip.event.timestamp.nsec = 120000000
    /\ trip.event.timestamp.offset < 0
    /\ trip.value.timestamp.frac = <<1, 2>>
    /\ trip.value.timestamp.zone.sign = "-"
    /\ trip.back.event = trip.event

\* C29: GET /health is answered 200 whatever the store and the log do;
\* GET /ready is answered 200 when the store ping succeeded and 503 when
\* it failed.
C29_HealthAndReady ==
    /\ resp.op = "health" => resp.status = 200
    /\ resp.op = "ready" => /\ resp.queried
                            /\ resp.repoErr => resp.status = 503
                            /\ ~resp.repoErr => resp.status = 200

C29_Witness ==
    /\ resp.op = "ready"
    /\ resp.status = 503
    /\ resp.repoErr
    /\ ~env.storeDown
    /\ rejected # {}

\* C30 as stated: the server is stopped first and all requests in flight
\* have ended before the publisher is closed, the store connection is
\* closed last, and no handler calls the publisher after it was closed.
C30_PublisherClosedAfterRequests ==
    /\ app.producer = "closed" => ~app.listening /\ app.inflight = 0
    /\ app.clickhouse = "closed" => app.producer = "closed"
    /\ ~app.lateProduce

\* C30, amended: Shutdown stops the server first, closes the publisher
\* only after Server.Shutdown returned and the store connection last; a
\* request is in flight at a closed publisher only when Server.Shutdown
\* timed out, and its publish then writes nothing and is answered 503.
C30_ShutdownOrder ==
    /\ [](/\ app.pc # "run" => ~app.listening
          /\ app.producer = "closed" => app.pc \in {"clickhouse", "done"}
          /\ app.clickhouse = "closed" => app.producer = "closed" /\ app.pc = "done"
          /\ (app.producer = "closed" /\ app.inflight > 0) => app.timedOut
          /\ app.lateProduce => app.timedOut)
    /\ [][(app'.lateProduce /\ ~app.lateProduce)
          => /\ topics' = topics
             /\ acked' = acked
             /\ resp'.status = 503]_vars

C30_Witness ==
    /\ app.lateProduce
    /\ app.timedOut
    /\ app.pc = "done"
    /\ app.clickhouse = "closed"
    /\ resp.op = "ingest"
    /\ resp.status = 503

\* C31: in a 200 metrics response whose by-type rows were all scanned, the
\* counts of events_by_type sum to total_events.
C31_ByTypeSumsToTotal ==
    ( /\ resp.op = "metrics"
      /\ resp.status = 200
      /\ resp.typesSkipped = 0 )
    => resp.byType = resp.total

\* C32: NewBatchConsumer replaces a non-positive BatchSize, FlushInterval
\* or MaxRetries by 1000, 5 s and 3 and keeps a positive value as given.
C32_DefaultsForNonPositive ==
    /\ cfg.batchSize = IF cfg.given.BatchSize <= 0 THEN 1000
                       ELSE cfg.given.BatchSize
    /\ cfg.flushInterval = IF cfg.given.FlushInterval <= 0 THEN 5
                           ELSE cfg.given.FlushInterval
    /\ cfg.maxRetries = IF cfg.given.MaxRetries <= 0 THEN 3
                        ELSE cfg.given.MaxRetries

C32_Witness ==
    /\ cfg.given.BatchSize = 0
    /\ cfg.given.FlushInterval = -1
    /\ cfg.given.MaxRetries = MaxCfgBatch
    /\ cfg.batchSize = 1000
    /\ cfg.flushInterval = 5
    /\ cfg.maxRetries = MaxCfgBatch
    /\ Len(store) = MaxLog

\* The positions of a flush: the snapshot is being inserted, published or
\* committed.
Flushing(cr) ==
    cr.pc \in {"insert", "commit", "escalate", "retryWrite", "retryCommit",
               "deadAll"}

\* C33: the live buffer never holds more than batch_size events; in the
\* loop, before a fetch, it holds fewer (a full buffer was flushed), and
\* during a flush it is empty.
C33_BatchBounded ==
    \A c \in Consumers :
        /\ Len(cons[c].batch) <= cfg.batchSize
        /\ Len(cons[c].events) <= cfg.batchSize
        /\ cons[c].pc = "loop" => Len(cons[c].batch) < cfg.batchSize
        /\ Flushing(cons[c]) => cons[c].batch = <<>>

C33_Witness ==
    /\ cfg.batchSize = MaxCfgBatch
    /\ cons["events"].pc = "insert"
    /\ Len(cons["events"].events) = cfg.batchSize
    /\ cons["events"].batch = <<>>

\* Entry i of a buffer of events belongs to entry i of a buffer of records.
Parallel(evs, recs) ==
    /\ Len(evs) = Len(recs)
    /\ \A i \in 1..Len(evs) : evs[i].id = recs[i].id /\ evs[i].m = recs[i].m

\* C34: the buffer of decoded events and the buffer of source records have
\* the same length and entry i of one belongs to entry i of the other, for
\* the live buffers and for the snapshot of a flush.
C34_ParallelBuffers ==
    \A c \in Consumers :
        /\ Parallel(cons[c].batch, cons[c].messages)
        /\ Parallel(cons[c].events, cons[c].msgs)

C34_Witness ==
    /\ cons["retry"].pc = "escalate"
    /\ Len(cons["retry"].events) = MaxCfgBatch
    /\ cons["retry"].events[1].id # cons["retry"].events[2].id
    /\ cons["retry"].msgs[1].rc # cons["retry"].msgs[2].rc

\* C35: a step that starts a flush takes all of both live buffers into the
\* snapshot and leaves them empty; during the insert, the publishes and
\* the commit the batch mutex is free and no record is both in a live
\* buffer and in the snapshot.
C35_SnapshotAndSwap ==
    /\ [][\A c \in Consumers :
            (~Flushing(cons[c]) /\ Flushing(cons'[c]))
            => /\ cons'[c].batch = <<>>
               /\ cons'[c].messages = <<>>
               /\ \/ /\ cons'[c].events = cons[c].batch
                     /\ cons'[c].msgs = cons[c].messages
                  \/ /\ Len(cons'[c].events) = Len(cons[c].batch) + 1
                     /\ SubSeq(cons'[c].events, 1, Len(cons[c].batch)) = cons[c].batch
                     /\ SubSeq(cons'[c].msgs, 1, Len(cons[c].batch)) = cons[c].messages]_vars
    /\ [](\A c \in Consumers :
            Flushing(cons[c])
            => /\ cons[c].batchLock = "free"
               /\ \A i \in 1..Len(cons[c].messages), j \in 1..Len(cons[c].msgs) :
                     cons[c].messages[i] # cons[c].msgs[j])

C35_Witness ==
    /\ cons["events"].pc = "insert"
    /\ cons["events"].draining
    /\ cons["events"].batchLock = "free"
    /\ Len(cons["events"].events) = 1
    /\ cons["events"].batch = <<>>
    /\ cfg.batchSize = MaxCfgBatch

\* C36: the committed offset of a partition of the events topic is never
\* past a valid record of it that is still only in the live buffer of the
\* consumer, so a restart redelivers every buffered record.
C36_CommitNotPastBuffered ==
    \A k \in 1..Len(cons["events"].messages) :
        committed["events"][cons["events"].messages[k].p]
            <= cons["events"].messages[k].off

\* C37: within one failed flush no event is published to the dead topic a
\* second time: the loop over all events that follows a failed retry
\* publish writes no dead letter for an event this flush already wrote one
\* for.
C37_DeadAtMostOncePerFlush ==
    [][\A c \in Consumers :
          ( /\ cons[c].pc = "deadAll"
            /\ cons'[c].i = cons[c].i + 1
            /\ Len(dead') = Len(dead) + 1 )
          => cons[c].disp[cons[c].i] # "dead"]_vars

\* The events of the flush of cr that are queued for the retry publish, in
\* the order of the failed batch.
Queued(cr) ==
    LET idx == SelectSeq([k \in 1..Len(cr.events) |-> k],
                         LAMBDA k : cr.disp[k] = "queued")
    IN [j \in 1..Len(idx) |-> cr.events[idx[j]]]

\* A successful retry publish appends, to each partition of the retry
\* topic, the queued events keyed to it, with their match id, in the order
\* of the failed batch.
RetryKeepsKeyAndBatchOrder ==
    \A c \in Consumers :
        ( cons[c].pc = "retryWrite" /\ topics'["retry"] # topics["retry"] )
        => \A q \in Partitions :
              LET mine == SelectSeq(Queued(cons[c]),
                                    LAMBDA ev : HashPartition(ev.m) = q)
                  old == topics["retry"][q]
                  new == topics'["retry"][q]
              IN /\ Len(new) = Len(old) + Len(mine)
                 /\ SubSeq(new, 1, Len(old)) = old
                 /\ \A k \in 1..Len(mine) :
                       /\ new[Len(old) + k].id = mine[k].id
                       /\ new[Len(old) + k].m = mine[k].m

\* Event a is on a partition of topic t before event b (first records).
Before(t, a, b) ==
    \E q \in Partitions : \E i \in 1..Len(topics[t][q]) :
        /\ topics[t][q][i].id = a
        /\ \A j \in 1..i : topics[t][q][j].id # b
        /\ \E j \in i+1..Len(topics[t][q]) : topics[t][q][j].id = b

\* Two events of one match, each with one record on the events topic, a
\* before b on the same partition, and both on the retry topic.
PrimaryPairOnRetry(a, b) ==
    /\ a # b
    /\ RecordCount(a) = 1 /\ RecordCount(b) = 1
    /\ \E q \in Partitions : \E i, j \in 1..Len(topics["events"][q]) :
          /\ i < j
          /\ topics["events"][q][i].id = a
          /\ topics["events"][q][j].id = b
          /\ topics["events"][q][i].m = topics["events"][q][j].m
    /\ OnTopic("retry", a) /\ OnTopic("retry", b)

\* C38 as stated: a retry publish keeps the key and the order of the failed
\* batch, and two events of one match that are both on the retry topic are
\* there in the order they have on their partition of the events topic.
C38_RetryKeepsPrimaryOrder ==
    /\ [][RetryKeepsKeyAndBatchOrder]_vars
    /\ [](\A a, b \in EventIds :
            PrimaryPairOnRetry(a, b) => Before("retry", a, b))

\* C38 amended: the same, the order on the retry topic only as long as the
\* consumer of the events topic has not been restarted (a restart after a
\* failed or missing commit delivers the earlier record again, after the
\* later one was re-published).
C38_RetryKeepsOrderUntilRestart ==
    /\ [][RetryKeepsKeyAndBatchOrder]_vars
    /\ [](\A a, b \in EventIds :
            ( crashes = 0 /\ PrimaryPairOnRetry(a, b) )
            => Before("retry", a, b))

C38_Witness ==
    /\ crashes = 0
    /\ \E a, b \in EventIds : PrimaryPairOnRetry(a, b) /\ Before("retry", a, b)
    /\ cons["events"].pc = "retryCommit"
    /\ Len(cons["events"].events) = MaxCfgBatch

\* Event a was published (answered 202) before event b, each once, with
\* the same match id, and each has one row in the store.
PublishedPairInStore(a, b) ==
    /\ a # b
    /\ \E i, j \in 1..Len(published) :
          i < j /\ published[i] = a /\ published[j] = b
    /\ Cardinality({i \in 1..Len(published) : published[i] \in {a, b}}) = 2
    /\ \E p, q \in Partitions :
          \E i \in 1..Len(topics["events"][p]), j \in 1..Len(topics["events"][q]) :
              /\ topics["events"][p][i].id = a
              /\ topics["events"][q][j].id = b
              /\ topics["events"][p][i].m = topics["events"][q][j].m
    /\ StoreCount(a) = 1 /\ StoreCount(b) = 1

\* C39: an insert appends the events of the batch to the store in the
\* order of the batch, and two events of one match that never took the
\* retry path have their rows in the store in the order in which they were
\* published.
C39_StoreInPublishOrder ==
    /\ [][\A c \in Consumers :
            ( cons[c].pc = "insert" /\ store' # store )
            => store' = store \o [k \in 1..Len(cons[c].events) |->
                                     cons[c].events[k].id]]_vars
    /\ [](\A a, b \in EventIds :
            PublishedPairInStore(a, b)
            => \E i, j \in 1..Len(store) :
                  i < j /\ store[i] = a /\ store[j] = b)

\* C40: once the main function has closed the reader (and then the
\* writers and the store connection), no flush is under way, the buffer is
\* empty, and no step inserts, publishes to retry or dead, or commits.
C40_FlushDoneBeforeClose ==
    /\ [](\A c \in Consumers :
            cons[c].closed # <<>>
            => /\ ~Flushing(cons[c])
               /\ cons[c].batch = <<>>)
    /\ [][( \E c \in Consumers : cons[c].closed # <<>> )
          => /\ store' = store
             /\ committed' = committed
             /\ dead' = dead
             /\ topics'["retry"] = topics["retry"]]_vars

\* Everything is closed after a final flush that inserted and committed.
C40_Witness ==
    /\ cons["events"].closed = CloseOrder
    /\ cons["events"].pc = "returned"
    /\ cons["events"].draining
    /\ cons["events"].commit = "ok"
    /\ Len(store) = 1
    /\ cfg.batchSize = MaxCfgBatch

====
